---- MODULE Spec2Model ----
(***************************************************************************)
(* A model of the FFI Founder Copilot backend: the SQLite session store    *)
(* (backend/session_store.py), the /chat handler with its rolling-summary  *)
(* compaction and its retrieval step (backend/main.py), and the indexer    *)
(* with its chunking (backend/build_index.py).                             *)
(*                                                                         *)
(* Abstractions: the created_at/updated_at columns are left out (no code   *)
(* reads them); in the server, strings are atomic values and str.strip /   *)
(* str.lower / substring tests are tables over the finite alphabet of      *)
(* texts used; in the indexer a text is a sequence of characters; an       *)
(* embedding is one integer and similarity is the absolute difference.     *)
(***************************************************************************)
EXTENDS Integers, Sequences, FiniteSets, TLC

VARIABLES
    sessions,         \* table sessions: session_id -> summary (a row per key of the function)
    messages,         \* table messages: a set of rows [id, session_id, role, content]
    seq,              \* sqlite_sequence of messages.id (AUTOINCREMENT): largest id ever given
    api,              \* the last direct call of a function and what it returned
    req,              \* per request worker: position in chat() and its local variables
    SATZUNG_PRESENT,  \* main._SATZUNG_PRESENT, the process-wide memo of the presence probe
    collection,       \* the Chroma collection: a set of entries
    dummy_accepted,   \* whether this Chroma accepts the probe's dummy embedding [[0.0]]
    data_dir,         \* build_index: the directory ./data, file name -> content
    indexer,          \* build_index: position in index_documents(), its locals, and a log of its runs
    served,           \* number of /chat requests the process has accepted
    summarizer        \* history: per session, the summarization calls made and failed so far

vars == <<sessions, messages, seq, api, req, SATZUNG_PRESENT, collection, dummy_accepted,
          data_dir, indexer, served, summarizer>>

(***************************************************************************)
(* Program constants.                                                      *)
(***************************************************************************)
SUMMARY_TRIGGER_MESSAGES == 20
KEEP_LAST_MESSAGES == 12
RETRIEVE_K == 8
PROBE_K == 5

(***************************************************************************)
(* Bounds of the model.                                                    *)
(***************************************************************************)
MaxRequests == 2      \* /chat requests served by the concurrent workers
MaxRequestsSeq == 14  \* /chat requests served one after the other
MaxSumFails == 2      \* failed summarization calls injected per session
MaxStoreSeq == 4      \* rows inserted by direct session_store calls
MaxLimit == 3         \* largest limit / keep_last of a direct session_store call
MaxCalls == 3         \* /chat requests (retrieve_context calls) of the mixed-query sequence
MaxTextLen == 5       \* longest text given to a direct call of chunk_text
MaxChunkChars == 4    \* largest max_chars of a direct call of chunk_text
MaxOverlap == 3       \* largest overlap of a direct call of chunk_text
MaxRuns == 2          \* runs of index_documents
MaxEdits == 1         \* edits of a file of the data directory
MaxFaults == 2        \* failures injected into the indexer (extraction, embedding, store)

SessionIds == {"s1", "s2"}
Requests == {"r1", "r2"}
None == "None"
\* An optional value that is not a string: <<>> is None, <<v>> is the value v.
Unset == <<>>
Some(v) == <<v>>
Roles == {"user", "assistant"}

(***************************************************************************)
(* Text helpers: str.strip(), str.lower() and `"satzung" in q` over the    *)
(* texts of the model.                                                     *)
(***************************************************************************)
RawTexts == {" ", "hallo ", "Satzung?"}
strip(t) ==
    CASE t = " " -> ""
      [] t = "hallo " -> "hallo"
      [] t = "antwort " -> "antwort"
      [] OTHER -> t
lower(t) ==
    CASE t = "Satzung?" -> "satzung?"
      [] OTHER -> t
contains_satzung(q) == q \in {"satzung?", "satzung"}

(***************************************************************************)
(* session_store.py                                                        *)
(***************************************************************************)
Rows(msgs, session_id) == {m \in msgs : m.session_id = session_id}

\* SELECT ... ORDER BY id DESC LIMIT ?  (SQLite: a negative LIMIT is no limit)
RECURSIVE OrderByIdDescLimit(_, _)
OrderByIdDescLimit(rows, limit) ==
    IF limit = 0 \/ rows = {} THEN <<>>
    ELSE LET top == CHOOSE m \in rows : \A o \in rows : o.id <= m.id
         IN  <<top>> \o OrderByIdDescLimit(rows \ {top}, limit - 1)

\* list.reverse()
reverse(s) == [i \in 1..Len(s) |-> s[Len(s) + 1 - i]]

touch_session(sess, session_id) ==
    IF session_id \in DOMAIN sess THEN sess ELSE sess @@ (session_id :> "")

get_summary(sess, session_id) ==
    IF session_id \in DOMAIN sess THEN sess[session_id] ELSE ""

set_summary(sess, session_id, summary) ==
    IF session_id \in DOMAIN sess
    THEN [sess EXCEPT ![session_id] = summary]
    ELSE sess @@ (session_id :> summary)

\* Mutant: the connection does not enforce foreign keys.
append_ok_without_foreign_keys(sess, session_id, role) == role \in Roles

\* The INSERT of append_message passes the FOREIGN KEY and CHECK constraints.
append_ok(sess, session_id, role) ==
    session_id \in DOMAIN sess /\ role \in Roles

\* The messages table after append_message; on a constraint violation the
\* transaction is rolled back and the call raises.
append_message(sess, msgs, n, session_id, role, content) ==
    IF append_ok(sess, session_id, role)
    THEN msgs \cup {[id |-> n + 1, session_id |-> session_id,
                     role |-> role, content |-> content]}
    ELSE msgs

append_seq(sess, n, session_id, role) ==
    IF append_ok(sess, session_id, role) THEN n + 1 ELSE n

\* Mutant: the rows are returned as selected, newest first (no rows.reverse()).
get_last_messages_newest_first(msgs, session_id, limit) ==
    LET rows == OrderByIdDescLimit(Rows(msgs, session_id), limit)
    IN  [i \in 1..Len(rows) |-> [role |-> rows[i].role, content |-> rows[i].content]]

get_last_messages(msgs, session_id, limit) ==
    LET rows == reverse(OrderByIdDescLimit(Rows(msgs, session_id), limit))
    IN  [i \in 1..Len(rows) |-> [role |-> rows[i].role, content |-> rows[i].content]]

count_messages(msgs, session_id) == Cardinality(Rows(msgs, session_id))

\* Mutant: the subquery lacks ORDER BY id DESC and keeps the first rows.
RECURSIVE OrderByIdAscLimit(_, _)
OrderByIdAscLimit(rows, limit) ==
    IF limit = 0 \/ rows = {} THEN <<>>
    ELSE LET first == CHOOSE m \in rows : \A o \in rows : m.id <= o.id
         IN  <<first>> \o OrderByIdAscLimit(rows \ {first}, limit - 1)
delete_newest_messages(msgs, session_id, keep_last) ==
    LET kept == OrderByIdAscLimit(Rows(msgs, session_id), keep_last)
        keep_ids == {kept[i].id : i \in 1..Len(kept)}
    IN  {m \in msgs : ~(m.session_id = session_id /\ m.id \notin keep_ids)}

\* Mutant: the outer DELETE lacks WHERE session_id=?.
delete_oldest_messages_all_sessions(msgs, session_id, keep_last) ==
    LET kept == OrderByIdDescLimit(Rows(msgs, session_id), keep_last)
        keep_ids == {kept[i].id : i \in 1..Len(kept)}
    IN  {m \in msgs : m.id \in keep_ids}

\* Mutant: LIMIT keep_last - 1.
delete_oldest_messages_off_by_one(msgs, session_id, keep_last) ==
    LET kept == OrderByIdDescLimit(Rows(msgs, session_id),
                                   IF keep_last > 0 THEN keep_last - 1 ELSE 0)
        keep_ids == {kept[i].id : i \in 1..Len(kept)}
    IN  {m \in msgs : ~(m.session_id = session_id /\ m.id \notin keep_ids)}

delete_oldest_messages(msgs, session_id, keep_last) ==
    LET kept == OrderByIdDescLimit(Rows(msgs, session_id), keep_last)
        keep_ids == {kept[i].id : i \in 1..Len(kept)}
    IN  {m \in msgs : ~(m.session_id = session_id /\ m.id \notin keep_ids)}

(***************************************************************************)
(* The Chroma collection (main.py: collection.query) and the embedding     *)
(* service.                                                                *)
(***************************************************************************)
Entry(i, doc_type, emb) ==
    [id |-> i, source |-> doc_type, doc_type |-> doc_type,
     page |-> IF doc_type = "satzung" THEN 1 ELSE 0,
     chunk |-> i, document |-> i, embedding |-> emb]

StoreNoSatzung ==
    {Entry(i, IF i % 2 = 0 THEN "other" ELSE "datenschutz", i) : i \in 1..9}
StoreWithSatzung ==
    {Entry(i, IF i % 2 = 0 THEN "other" ELSE "datenschutz", i) : i \in 1..7}
        \cup {Entry(8, "satzung", 8), Entry(9, "satzung", 20)}
StoreSatzungFar ==
    {Entry(i, IF i % 2 = 0 THEN "other" ELSE "datenschutz", i + 4) : i \in 1..6}
        \cup {Entry(7, "satzung", 20)}
Stores == {{}, StoreNoSatzung, StoreWithSatzung, StoreSatzungFar}

\* The embedding the service returns for a prompt (when it answers).
get_embedding(text) ==
    CASE text = "FFI hallo" -> 2
      [] text = "FFI Satzung?" -> 7
      [] text = "FFI Satzung" -> 8
      [] OTHER -> 0

\* "FFI " + user_text
ffi_prefixed(user_text) ==
    CASE user_text = "hallo" -> "FFI hallo"
      [] user_text = "Satzung?" -> "FFI Satzung?"
      [] OTHER -> "FFI "

distance(a, b) == IF a >= b THEN a - b ELSE b - a

RECURSIVE Nearest(_, _, _)
Nearest(entries, qemb, n) ==
    IF n = 0 \/ entries = {} THEN <<>>
    ELSE LET best == CHOOSE e \in entries : \A o \in entries :
                        \/ distance(e.embedding, qemb) < distance(o.embedding, qemb)
                        \/ /\ distance(e.embedding, qemb) = distance(o.embedding, qemb)
                           /\ e.id <= o.id
         IN  <<best>> \o Nearest(entries \ {best}, qemb, n - 1)

\* collection.query(query_embeddings=[qemb], n_results=n, where=where)
query(coll, qemb, n, where) ==
    Nearest(IF where = None THEN coll ELSE {e \in coll : e.doc_type = where}, qemb, n)

\* _has_satzung_chunks(): the dummy-embedding probe either is accepted by
\* Chroma ("primary") or raises, and then the fallback looks for a satzung
\* entry among the 5 nearest to "FFI Satzung" ("fallback"), unless that
\* raises too ("error").
ProbePaths == {"primary", "fallback", "error"}
\* Whether Chroma rejects the one-dimensional dummy query is a matter of the
\* store and the library, the same for every probe of a process; whether the
\* fallback's embedding call fails can differ from probe to probe.
ProbePathsWhen(accepted) == IF accepted THEN {"primary"} ELSE ProbePaths \ {"primary"}
\* Mutant: the last except branch answers True.
has_satzung_chunks_true_on_error(coll, path) ==
    CASE path = "primary" -> query(coll, 0, 1, "satzung") # <<>>
      [] path = "fallback" ->
            LET metas == query(coll, get_embedding("FFI Satzung"), PROBE_K, None)
            IN  \E i \in 1..Len(metas) : metas[i].doc_type = "satzung"
      [] OTHER -> TRUE

has_satzung_chunks(coll, path) ==
    CASE path = "primary" -> query(coll, 0, 1, "satzung") # <<>>
      [] path = "fallback" ->
            LET metas == query(coll, get_embedding("FFI Satzung"), PROBE_K, None)
            IN  \E i \in 1..Len(metas) : metas[i].doc_type = "satzung"
      [] OTHER -> FALSE

\* One formatted block of retrieve_context: header fields and the text.
format_snippet(e) ==
    [header |-> <<e.source, e.doc_type>>
                  \o (IF e.page # 0 THEN <<"p", e.page>> ELSE <<>>)
                  \o <<"chunk", e.chunk>>,
     doc |-> e.document]

format_context(results) == [i \in 1..Len(results) |-> format_snippet(results[i])]

(***************************************************************************)
(* build_index.py: chunk_text.  Here a text is a sequence of characters.   *)
(***************************************************************************)
MAX_CHARS == 1200
OVERLAP == 150

Whitespace == {" ", "\n"}

\* str.strip() on a sequence of characters
str_strip(s) ==
    LET K == {i \in 1..Len(s) : s[i] \notin Whitespace}
    IN  IF K = {} THEN <<>>
        ELSE SubSeq(s, CHOOSE i \in K : \A j \in K : i <= j,
                       CHOOSE i \in K : \A j \in K : j <= i)

\* str.split("\n")
RECURSIVE str_split(_)
str_split(s) ==
    LET N == {i \in 1..Len(s) : s[i] = "\n"}
    IN  IF N = {} THEN <<s>>
        ELSE LET i == CHOOSE i \in N : \A j \in N : i <= j
             IN  <<SubSeq(s, 1, i - 1)>> \o str_split(SubSeq(s, i + 1, Len(s)))

\* line 78: [p.strip() for p in text.split("\n") if p.strip()]
paragraphs(text) ==
    LET parts == str_split(text)
        stripped == [i \in 1..Len(parts) |-> str_strip(parts[i])]
    IN  SelectSeq(stripped, LAMBDA p : p # <<>>)

\* Mutant: the accumulation that is full is thrown away instead of closed.
RECURSIVE accumulate_drops_full(_, _, _, _, _)
accumulate_drops_full(paras, i, cur, chunks, max_chars) ==
    IF i > Len(paras)
    THEN IF cur # <<>> THEN Append(chunks, cur) ELSE chunks
    ELSE LET p == paras[i] IN
         IF Len(cur) + Len(p) + 1 <= max_chars
         THEN accumulate_drops_full(paras, i + 1, str_strip(cur \o <<"\n">> \o p), chunks, max_chars)
         ELSE accumulate_drops_full(paras, i + 1, p, chunks, max_chars)

\* lines 79-91: the loop over the paragraphs, from paragraph i on, with the
\* current accumulation cur and the chunks closed so far
RECURSIVE accumulate(_, _, _, _, _)
accumulate(paras, i, cur, chunks, max_chars) ==
    IF i > Len(paras)
    THEN IF cur # <<>> THEN Append(chunks, cur) ELSE chunks
    ELSE LET p == paras[i] IN
         IF Len(cur) + Len(p) + 1 <= max_chars
         THEN accumulate(paras, i + 1, str_strip(cur \o <<"\n">> \o p), chunks, max_chars)
         ELSE accumulate(paras, i + 1, p,
                         IF cur # <<>> THEN Append(chunks, cur) ELSE chunks, max_chars)

\* The chunks before the overlap is applied (the list `chunks` at line 92).
accumulated_chunks(text, max_chars) == accumulate(paragraphs(text), 1, <<>>, <<>>, max_chars)

\* line 100: prev[-overlap:] if len(prev) > overlap else prev
overlap_prefix(prev, overlap) ==
    IF Len(prev) > overlap THEN SubSeq(prev, Len(prev) - overlap + 1, Len(prev)) ELSE prev

\* Mutant: the overlapped chunk is not stripped.
overlapped_chunk_unstripped(prev, ch, overlap) == overlap_prefix(prev, overlap) \o <<"\n">> \o ch

\* line 101: (prefix + "\n" + ch).strip()
overlapped_chunk(prev, ch, overlap) ==
    str_strip(overlap_prefix(prev, overlap) \o <<"\n">> \o ch)

\* chunk_text(text, max_chars, overlap), for overlap >= 0
chunk_text(text, max_chars, overlap) ==
    LET chunks == accumulated_chunks(text, max_chars)
    IN  IF overlap # 0 /\ Len(chunks) > 1
        THEN [i \in 1..Len(chunks) |->
                IF i = 1 THEN chunks[1] ELSE overlapped_chunk(chunks[i - 1], chunks[i], overlap)]
        ELSE chunks

(***************************************************************************)
(* build_index.py: index_documents.  A file name is an atomic value, a     *)
(* .pdf holds a sequence of page texts, any other file one text.  sha256   *)
(* is taken as injective and the key of stable_id as the tuple of its      *)
(* fields.  collection.add raises, and adds nothing, when an id of the     *)
(* batch is already in the collection (the comment of lines 243-244).      *)
(***************************************************************************)
\* lines 157-160: f.lower().endswith((".txt", ".md", ".pdf", ".docx"))
is_supported(filename) == filename \in {"Satzung.pdf", "notes.txt", "empty.md"}
\* line 179
is_pdf(filename) == filename = "Satzung.pdf"

classify_doc_type(filename) ==
    CASE filename = "Satzung.pdf" -> "satzung"
      [] OTHER -> "other"

\* Mutant: an identifier that is new in every run (as uuid4 would be).
stable_id_per_run(source, page, chunk_idx, text) ==
    <<source, page, chunk_idx, text, Len(indexer.log)>>

\* f"{source}|{page or 0}|{chunk_idx}|{text}", hashed; page 0 stands for None
stable_id(source, page, chunk_idx, text) == <<source, page, chunk_idx, text>>

\* build_index.get_embedding: the vector the service returns for a chunk
chunk_embedding(text) == Len(text) % 10

\* extract_pdf_pages: the stripped non-empty pages with their numbers from 1
extract_pdf_pages(pages) ==
    SelectSeq([i \in 1..Len(pages) |-> [page |-> i, text |-> str_strip(pages[i])]],
              LAMBDA p : p.text # <<>>)

\* lines 186-189: the chunks of the pages from page k on, as (page, idx, text)
RECURSIVE page_chunks_from(_, _)
page_chunks_from(pages, k) ==
    IF k > Len(pages) THEN <<>>
    ELSE LET cs == chunk_text(pages[k].text, MAX_CHARS, OVERLAP)
         IN  [i \in 1..Len(cs) |-> [page |-> pages[k].page, idx |-> i - 1, text |-> cs[i]]]
                \o page_chunks_from(pages, k + 1)

\* lines 179-191 and 212-219: the chunks of a file whose extraction succeeds;
\* none when the pdf has no page with text or the text is blank
file_chunks(filename, content) ==
    IF is_pdf(filename)
    THEN page_chunks_from(extract_pdf_pages(content), 1)
    ELSE LET text == str_strip(content)
             cs == chunk_text(text, MAX_CHARS, OVERLAP)
         IN  IF text = <<>> THEN <<>>
             ELSE [i \in 1..Len(cs) |-> [page |-> 0, idx |-> i - 1, text |-> cs[i]]]

\* lines 200-210 and 228-237: what one chunk contributes to ids, docs, metas, embeds
IndexEntry(filename, doc_type, c) ==
    [id |-> stable_id(filename, c.page, c.idx, c.text),
     source |-> filename, doc_type |-> doc_type, page |-> c.page, chunk |-> c.idx,
     document |-> c.text, embedding |-> chunk_embedding(c.text)]

EntryIds(coll) == {e.id : e \in coll}
BatchEntries(batch) == {batch[i] : i \in 1..Len(batch)}

\* collection.add accepts the batch: none of its ids is in the collection
add_accepts(coll, batch) == \A i \in 1..Len(batch) : batch[i].id \notin EntryIds(coll)

\* The texts of the files.
TextA == <<"a">>
TextB == <<"b">>
TextC == <<"c">>
Blank == <<" ">>
LongPara(ch) == [i \in 1..(MAX_CHARS \div 2 + 1) |-> ch]
LongText == LongPara("a") \o <<"\n">> \o LongPara("b")
LongTextEdited == LongPara("a") \o <<"\n">> \o LongPara("c")

\* The directories: one without a supported file, one with three short
\* files (a pdf of three pages, the second blank), and one with a text file
\* of two paragraphs that together exceed MAX_CHARS, hence of two chunks.
DirNoDocs == ("logo.png" :> Blank)
DirDocs ==
    ("Satzung.pdf" :> <<TextA, Blank, TextB>>) @@ ("notes.txt" :> TextB)
        @@ ("empty.md" :> Blank) @@ ("logo.png" :> Blank)
DirLong == ("notes.txt" :> LongText)
Dirs == {DirNoDocs, DirDocs, DirLong}

\* An edit of a file: the last page, or the last paragraph, is rewritten.
EditedContent(filename, content) ==
    CASE is_pdf(filename) -> <<TextA, Blank, TextC>>
      [] Len(content) > 1 -> LongTextEdited
      [] OTHER -> TextC

IdleIndexer ==
    [pc |-> "idle", todo |-> {}, filename |-> None, doc_type |-> None,
     chunks |-> <<>>, j |-> 1, batch |-> <<>>, total_added |-> 0,
     faults |-> 0, edits |-> 0, log |-> <<>>]

\* The log entry of a run: the edits of the directory and the entry count
\* when it started, how it ended, what it reported (lines 252-253), the
\* chunks whose embedding failed, the files whose write failed and why.
RunRecord(edits, count) ==
    [edits |-> edits, count_before |-> count, outcome |-> "running",
     total |-> 0, count |-> 0, skipped |-> {}, written |-> {},
     rejected |-> {}, store_errors |-> {}]

server_vars == <<sessions, messages, seq, api, req, SATZUNG_PRESENT, dummy_accepted,
                 served, summarizer>>

ThisRun == indexer.log[Len(indexer.log)]
LogThisRun(field, value) == [indexer.log EXCEPT ![Len(indexer.log)][field] = value]

\* lines 155-166: list the supported files; return when there is none
StartRun ==
    /\ indexer.pc = "idle"
    /\ Len(indexer.log) < MaxRuns
    /\ LET files == {f \in DOMAIN data_dir : is_supported(f)}
           run == RunRecord(indexer.edits, Cardinality(collection))
       IN  indexer' =
             IF files = {}
             THEN [indexer EXCEPT !.log = Append(@, [run EXCEPT !.outcome = "no_files"])]
             ELSE [indexer EXCEPT !.pc = "loop", !.todo = files, !.total_added = 0,
                                  !.log = Append(@, run)]
    /\ UNCHANGED <<collection, data_dir, server_vars>>

\* lines 168-177: the next file of the listing (os.listdir gives any order)
NextFile ==
    /\ indexer.pc = "loop"
    /\ \E f \in indexer.todo :
         indexer' = [indexer EXCEPT !.pc = "extract", !.todo = @ \ {f}, !.filename = f,
                                    !.doc_type = classify_doc_type(f),
                                    !.chunks = <<>>, !.j = 1, !.batch = <<>>]
    /\ UNCHANGED <<collection, data_dir, server_vars>>

\* lines 179-191 and 212-219: extraction and chunking.  The extraction call
\* is outside any try: when it raises (unreadable or damaged file) the
\* exception leaves index_documents.  A file without text is skipped.
Extract ==
    /\ indexer.pc = "extract"
    /\ \E raised \in BOOLEAN :
         IF raised
         THEN /\ indexer.faults < MaxFaults
              /\ indexer' = [indexer EXCEPT !.pc = "idle", !.faults = @ + 1,
                                !.log = LogThisRun("outcome", "aborted")]
         ELSE LET chunks == file_chunks(indexer.filename, data_dir[indexer.filename])
              IN  indexer' = [indexer EXCEPT !.chunks = chunks,
                                !.pc = IF chunks = <<>> THEN "loop" ELSE "embed"]
    /\ UNCHANGED <<collection, data_dir, server_vars>>

\* Mutant: the chunk index is the position in the batch.
EmbedChunkRenumbers ==
    /\ indexer.pc = "embed"
    /\ LET c == indexer.chunks[indexer.j]
           next_pc == IF indexer.j = Len(indexer.chunks) THEN "add" ELSE "embed"
       IN  \E ok \in BOOLEAN :
             IF ok
             THEN indexer' = [indexer EXCEPT
                                !.batch = Append(@, IndexEntry(indexer.filename, indexer.doc_type,
                                                     [c EXCEPT !.idx = Len(indexer.batch)])),
                                !.j = @ + 1, !.pc = next_pc]
             ELSE /\ indexer.faults < MaxFaults
                  /\ indexer' = [indexer EXCEPT
                                   !.j = @ + 1, !.pc = next_pc, !.faults = @ + 1,
                                   !.log = LogThisRun("skipped", ThisRun.skipped
                                              \cup {<<indexer.filename, c.page, c.idx>>})]
    /\ UNCHANGED <<collection, data_dir, server_vars>>

\* lines 193-210 and 221-237: one pass of the loop over the chunks
EmbedChunk ==
    /\ indexer.pc = "embed"
    /\ LET c == indexer.chunks[indexer.j]
           next_pc == IF indexer.j = Len(indexer.chunks) THEN "add" ELSE "embed"
       IN  \E ok \in BOOLEAN :
             IF ok
             THEN indexer' = [indexer EXCEPT
                                !.batch = Append(@, IndexEntry(indexer.filename, indexer.doc_type, c)),
                                !.j = @ + 1, !.pc = next_pc]
             ELSE /\ indexer.faults < MaxFaults
                  /\ indexer' = [indexer EXCEPT
                                   !.j = @ + 1, !.pc = next_pc, !.faults = @ + 1,
                                   !.log = LogThisRun("skipped", ThisRun.skipped
                                              \cup {<<indexer.filename, c.page, c.idx>>})]
    /\ UNCHANGED <<collection, data_dir, server_vars>>

\* Mutant: the batch is counted before the write is tried.
AddCountsFirst ==
    /\ indexer.pc = "add"
    /\ IF indexer.batch = <<>>
       THEN /\ indexer' = [indexer EXCEPT !.pc = "loop"]
            /\ UNCHANGED collection
       ELSE \E store_ok \in BOOLEAN :
              IF store_ok /\ add_accepts(collection, indexer.batch)
              THEN /\ collection' = collection \cup BatchEntries(indexer.batch)
                   /\ indexer' = [indexer EXCEPT
                                    !.pc = "loop", !.total_added = @ + Len(indexer.batch),
                                    !.log = LogThisRun("written",
                                               ThisRun.written \cup {indexer.filename})]
              ELSE /\ ~store_ok => indexer.faults < MaxFaults
                   /\ UNCHANGED collection
                   /\ indexer' = [indexer EXCEPT
                                    !.pc = "loop", !.total_added = @ + Len(indexer.batch),
                                    !.faults = IF store_ok THEN @ ELSE @ + 1,
                                    !.log = IF store_ok
                                            THEN LogThisRun("rejected",
                                                   ThisRun.rejected \cup {indexer.filename})
                                            ELSE LogThisRun("store_errors",
                                                   ThisRun.store_errors \cup {indexer.filename})]
    /\ UNCHANGED <<data_dir, server_vars>>

\* lines 239-250: nothing to add, or the batch write; the write fails when
\* the store fails or when an id of the batch is already stored
Add ==
    /\ indexer.pc = "add"
    /\ IF indexer.batch = <<>>
       THEN /\ indexer' = [indexer EXCEPT !.pc = "loop"]
            /\ UNCHANGED collection
       ELSE \E store_ok \in BOOLEAN :
              IF store_ok /\ add_accepts(collection, indexer.batch)
              THEN /\ collection' = collection \cup BatchEntries(indexer.batch)
                   /\ indexer' = [indexer EXCEPT
                                    !.pc = "loop", !.total_added = @ + Len(indexer.batch),
                                    !.log = LogThisRun("written",
                                               ThisRun.written \cup {indexer.filename})]
              ELSE /\ ~store_ok => indexer.faults < MaxFaults
                   /\ UNCHANGED collection
                   /\ indexer' = [indexer EXCEPT
                                    !.pc = "loop",
                                    !.faults = IF store_ok THEN @ ELSE @ + 1,
                                    !.log = IF store_ok
                                            THEN LogThisRun("rejected",
                                                   ThisRun.rejected \cup {indexer.filename})
                                            ELSE LogThisRun("store_errors",
                                                   ThisRun.store_errors \cup {indexer.filename})]
    /\ UNCHANGED <<data_dir, server_vars>>

\* lines 252-253: after the last file, the total and the entry count
FinishRun ==
    /\ indexer.pc = "loop"
    /\ indexer.todo = {}
    /\ indexer' = [indexer EXCEPT
                     !.pc = "idle",
                     !.log = [@ EXCEPT ![Len(@)] =
                                [@ EXCEPT !.outcome = "finished",
                                          !.total = indexer.total_added,
                                          !.count = Cardinality(collection)]]]
    /\ UNCHANGED <<collection, data_dir, server_vars>>

\* Between two runs somebody edits a file of the directory.
EditFile(f) ==
    /\ indexer.pc = "idle"
    /\ indexer.log # <<>>
    /\ indexer.edits < MaxEdits
    /\ f \in DOMAIN data_dir
    /\ is_supported(f)
    /\ data_dir' = [data_dir EXCEPT ![f] = EditedContent(f, data_dir[f])]
    /\ indexer' = [indexer EXCEPT !.edits = @ + 1]
    /\ UNCHANGED <<collection, server_vars>>

(***************************************************************************)
(* main.py: chat()                                                         *)
(***************************************************************************)
SummarizerReplies == {" ", "sumA", "sumB"}
ModelReplies == {"antwort "}

IdleReq ==
    [pc |-> "idle", session_id |-> None, user_text |-> "", summary |-> "",
     history |-> <<>>, old_part |-> <<>>, new_summary |-> "", invoked |-> 0,
     old_ids |-> {},     \* history: the ids of the rows whose role and content are old_part
     query_emb |-> Unset, where |-> None, context |-> <<>>,
     probed |-> FALSE,   \* history: this request has run _has_satzung_chunks()
     queried |-> FALSE,  \* history: this request has run the similarity query of line 223
     prompt |-> None, reply |-> None, status |-> 0]

\* The request has returned (or raised HTTPException): its locals are gone.
Response(session_id, status, reply) ==
    [IdleReq EXCEPT !.pc = "done", !.session_id = session_id,
                    !.status = status, !.reply = reply]

\* Mutant: the trigger compares with >=.
needs_compaction_at_threshold(count) == count >= SUMMARY_TRIGGER_MESSAGES
\* Mutant: the trigger fires two messages late.
needs_compaction_late(count) == count > SUMMARY_TRIGGER_MESSAGES + 2

\* line 321: the trigger of the rolling summary
needs_compaction(count) == count > SUMMARY_TRIGGER_MESSAGES

\* line 323: older[:-KEEP_LAST_MESSAGES] if len(older) > KEEP_LAST_MESSAGES else []
old_part_of(older) ==
    IF Len(older) > KEEP_LAST_MESSAGES
    THEN SubSeq(older, 1, Len(older) - KEEP_LAST_MESSAGES)
    ELSE <<>>

\* lines 305-314: resolve the user text, 400 when empty, else touch the session
Receive(r, sid_in, raw) ==
    /\ req[r].pc \in {"idle", "done"}
    /\ served' = served + 1
    /\ LET user_text == strip(raw) IN
       IF user_text = ""
       THEN /\ req' = [req EXCEPT ![r] = Response(None, 400, None)]
            /\ UNCHANGED sessions
       ELSE \E sid \in (IF sid_in = None THEN SessionIds \ DOMAIN sessions ELSE {sid_in}) :
                /\ sessions' = touch_session(sessions, sid)
                /\ req' = [req EXCEPT ![r] = [IdleReq EXCEPT !.pc = "get_summary",
                                                !.session_id = sid,
                                                !.user_text = user_text]]
    /\ UNCHANGED <<messages, seq, api, SATZUNG_PRESENT, collection, dummy_accepted, data_dir, indexer, summarizer>>

\* line 317
GetSummary(r) ==
    /\ req[r].pc = "get_summary"
    /\ req' = [req EXCEPT ![r].summary = get_summary(sessions, req[r].session_id),
                          ![r].pc = "get_history"]
    /\ UNCHANGED <<sessions, messages, seq, api, SATZUNG_PRESENT, collection, dummy_accepted, data_dir, indexer, served, summarizer>>

\* line 318
GetHistory(r) ==
    /\ req[r].pc = "get_history"
    /\ req' = [req EXCEPT ![r].history =
                              get_last_messages(messages, req[r].session_id, KEEP_LAST_MESSAGES),
                          ![r].pc = "count"]
    /\ UNCHANGED <<sessions, messages, seq, api, SATZUNG_PRESENT, collection, dummy_accepted, data_dir, indexer, served, summarizer>>

\* line 321
CountCheck(r) ==
    /\ req[r].pc = "count"
    /\ req' = [req EXCEPT ![r].pc =
                  IF needs_compaction(count_messages(messages, req[r].session_id))
                  THEN "older" ELSE "embed"]
    /\ UNCHANGED <<sessions, messages, seq, api, SATZUNG_PRESENT, collection, dummy_accepted, data_dir, indexer, served, summarizer>>

\* lines 322-325
GetOlder(r) ==
    /\ req[r].pc = "older"
    /\ LET older == get_last_messages(messages, req[r].session_id,
                                      SUMMARY_TRIGGER_MESSAGES + KEEP_LAST_MESSAGES)
           old_part == old_part_of(older)
           rows == reverse(OrderByIdDescLimit(Rows(messages, req[r].session_id),
                                              SUMMARY_TRIGGER_MESSAGES + KEEP_LAST_MESSAGES))
       IN  req' = [req EXCEPT ![r].old_part = old_part,
                              ![r].old_ids = {rows[i].id : i \in 1..Len(old_part)},
                              ![r].pc = IF old_part # <<>> THEN "summarize" ELSE "embed"]
    /\ UNCHANGED <<sessions, messages, seq, api, SATZUNG_PRESENT, collection, dummy_accepted, data_dir, indexer, served, summarizer>>

\* Mutant: the summary is persisted and the table trimmed whatever came back.
after_summarize_unguarded(new_summary) == "set_summary"
\* Mutant: an empty summary is retried at once.
after_summarize_retry(new_summary) == IF new_summary # "" THEN "set_summary" ELSE "summarize"

\* line 346: if new_summary:
after_summarize(new_summary) == IF new_summary # "" THEN "set_summary" ELSE "embed"

\* lines 326-346: the summarizer call; outcome None is a raised exception
Summarize(r) ==
    /\ req[r].pc = "summarize"
    /\ \E outcome \in SummarizerReplies \cup {None} :
         LET new_summary == IF outcome = None THEN "" ELSE strip(outcome)
             s == req[r].session_id
         IN  /\ new_summary = "" => summarizer[s].fails < MaxSumFails
             /\ req' = [req EXCEPT ![r].new_summary = new_summary,
                                   ![r].invoked = @ + 1,
                                   ![r].pc = after_summarize(new_summary)]
             /\ summarizer' = [summarizer EXCEPT
                                 ![s].calls = @ + 1,
                                 ![s].fails = IF new_summary = "" THEN @ + 1 ELSE @,
                                 ![s].failed = (new_summary = "")]
    /\ UNCHANGED <<sessions, messages, seq, api, SATZUNG_PRESENT, collection, dummy_accepted, data_dir, indexer, served>>

\* line 347
SetSummary(r) ==
    /\ req[r].pc = "set_summary"
    /\ sessions' = set_summary(sessions, req[r].session_id, req[r].new_summary)
    /\ req' = [req EXCEPT ![r].pc = "trim"]
    /\ UNCHANGED <<messages, seq, api, SATZUNG_PRESENT, collection, dummy_accepted, data_dir, indexer, served, summarizer>>

\* Mutant: the trim keeps one message more.
TrimKeepsOneMore(r) ==
    /\ req[r].pc = "trim"
    /\ messages' = delete_oldest_messages(messages, req[r].session_id, KEEP_LAST_MESSAGES + 1)
    /\ req' = [req EXCEPT ![r].summary = req[r].new_summary, ![r].pc = "reload"]
    /\ UNCHANGED <<sessions, seq, api, SATZUNG_PRESENT, collection, dummy_accepted, data_dir, indexer, served, summarizer>>

\* lines 348-349
Trim(r) ==
    /\ req[r].pc = "trim"
    /\ messages' = delete_oldest_messages(messages, req[r].session_id, KEEP_LAST_MESSAGES)
    /\ req' = [req EXCEPT ![r].summary = req[r].new_summary, ![r].pc = "reload"]
    /\ UNCHANGED <<sessions, seq, api, SATZUNG_PRESENT, collection, dummy_accepted, data_dir, indexer, served, summarizer>>

\* line 350
Reload(r) ==
    /\ req[r].pc = "reload"
    /\ req' = [req EXCEPT ![r].history =
                              get_last_messages(messages, req[r].session_id, KEEP_LAST_MESSAGES),
                          ![r].pc = "embed"]
    /\ UNCHANGED <<sessions, messages, seq, api, SATZUNG_PRESENT, collection, dummy_accepted, data_dir, indexer, served, summarizer>>

\* Mutant: the failure of the query embedding is not caught.
EmbedRaises(r) ==
    /\ req[r].pc = "embed"
    /\ \E ok \in BOOLEAN :
         IF ~ok
         THEN req' = [req EXCEPT ![r] = Response(req[r].session_id, 500, None)]
         ELSE req' = [req EXCEPT
                        ![r].query_emb = Some(get_embedding(ffi_prefixed(req[r].user_text))),
                        ![r].pc = IF contains_satzung(lower(req[r].user_text))
                                  THEN "check_cache" ELSE "query"]
    /\ UNCHANGED <<sessions, messages, seq, api, SATZUNG_PRESENT, collection, dummy_accepted, data_dir, indexer, served, summarizer>>

\* retrieve_context lines 208-217: the query embedding, then the keyword test
Embed(r) ==
    /\ req[r].pc = "embed"
    /\ \E ok \in BOOLEAN :
         IF ~ok
         THEN req' = [req EXCEPT ![r].context = <<>>, ![r].pc = "model"]
         ELSE req' = [req EXCEPT
                        ![r].query_emb = Some(get_embedding(ffi_prefixed(req[r].user_text))),
                        ![r].pc = IF contains_satzung(lower(req[r].user_text))
                                  THEN "check_cache" ELSE "query"]
    /\ UNCHANGED <<sessions, messages, seq, api, SATZUNG_PRESENT, collection, dummy_accepted, data_dir, indexer, served, summarizer>>

\* Mutant: the memo is not consulted, every keyword query probes again.
CheckCacheAlwaysProbe(r) ==
    /\ req[r].pc = "check_cache"
    /\ req' = [req EXCEPT ![r].pc = "probe"]
    /\ UNCHANGED <<sessions, messages, seq, api, SATZUNG_PRESENT, collection, dummy_accepted, data_dir, indexer, served, summarizer>>

\* line 218: if _SATZUNG_PRESENT is None
CheckCache(r) ==
    /\ req[r].pc = "check_cache"
    /\ req' = [req EXCEPT ![r].pc = IF SATZUNG_PRESENT = Unset THEN "probe" ELSE "where"]
    /\ UNCHANGED <<sessions, messages, seq, api, SATZUNG_PRESENT, collection, dummy_accepted, data_dir, indexer, served, summarizer>>

\* line 219: _SATZUNG_PRESENT = _has_satzung_chunks()
Probe(r) ==
    /\ req[r].pc = "probe"
    /\ \E path \in ProbePathsWhen(dummy_accepted) :
         SATZUNG_PRESENT' = Some(has_satzung_chunks(collection, path))
    /\ req' = [req EXCEPT ![r].probed = TRUE, ![r].pc = "where"]
    /\ UNCHANGED <<sessions, messages, seq, api, collection, dummy_accepted, data_dir, indexer, served, summarizer>>

\* lines 220-221: if _SATZUNG_PRESENT: where = {"doc_type": "satzung"}
filter_for(present) == IF present = Some(TRUE) THEN "satzung" ELSE None

Where(r) ==
    /\ req[r].pc = "where"
    /\ req' = [req EXCEPT ![r].where = filter_for(SATZUNG_PRESENT), ![r].pc = "query"]
    /\ UNCHANGED <<sessions, messages, seq, api, SATZUNG_PRESENT, collection, dummy_accepted, data_dir, indexer, served, summarizer>>

\* lines 223-257
Query(r) ==
    /\ req[r].pc = "query"
    /\ req' = [req EXCEPT
                 ![r].context = format_context(
                     query(collection, req[r].query_emb[1], RETRIEVE_K, req[r].where)),
                 ![r].queried = TRUE,
                 ![r].pc = "model"]
    /\ UNCHANGED <<sessions, messages, seq, api, SATZUNG_PRESENT, collection, dummy_accepted, data_dir, indexer, served, summarizer>>

\* lines 356-364: the strict prompt when there is context, else the fallback
system_prompt(context) == IF context # <<>> THEN "strict" ELSE "fallback"

\* Mutant: the user message is persisted before the model is called.
CallModelAfterPersist(r) ==
    /\ req[r].pc = "model"
    /\ \E outcome \in ModelReplies \cup {None, "error"} :
         IF outcome \in {None, "error"}
         THEN /\ req' = [req EXCEPT ![r] = Response(req[r].session_id, 500, None)]
              /\ messages' = append_message(sessions, messages, seq, req[r].session_id,
                                            "user", req[r].user_text)
              /\ seq' = seq + 1
         ELSE /\ req' = [req EXCEPT ![r].prompt = system_prompt(req[r].context),
                                    ![r].reply = strip(outcome), ![r].pc = "append_user"]
              /\ UNCHANGED <<messages, seq>>
    /\ UNCHANGED <<sessions, api, SATZUNG_PRESENT, collection, dummy_accepted, data_dir, indexer, served, summarizer>>

\* lines 386-395 and 402-403: the model call; outcome "error" is a raised
\* exception, None a response without message.content
CallModel(r) ==
    /\ req[r].pc = "model"
    /\ \E outcome \in ModelReplies \cup {None, "error"} :
         IF outcome \in {None, "error"}
         THEN req' = [req EXCEPT ![r] = Response(req[r].session_id, 500, None)]
         ELSE req' = [req EXCEPT ![r].prompt = system_prompt(req[r].context),
                                 ![r].reply = strip(outcome), ![r].pc = "append_user"]
    /\ UNCHANGED <<sessions, messages, seq, api, SATZUNG_PRESENT, collection, dummy_accepted, data_dir, indexer, served, summarizer>>

\* line 397
AppendUser(r) ==
    /\ req[r].pc = "append_user"
    /\ LET s == req[r].session_id IN
       /\ messages' = append_message(sessions, messages, seq, s, "user", req[r].user_text)
       /\ seq' = append_seq(sessions, seq, s, "user")
       /\ req' = IF append_ok(sessions, s, "user")
                 THEN [req EXCEPT ![r].pc = "append_assistant"]
                 ELSE [req EXCEPT ![r] = Response(s, 500, None)]
    /\ UNCHANGED <<sessions, api, SATZUNG_PRESENT, collection, dummy_accepted, data_dir, indexer, served, summarizer>>

\* lines 398-400
AppendAssistant(r) ==
    /\ req[r].pc = "append_assistant"
    /\ LET s == req[r].session_id IN
       /\ messages' = append_message(sessions, messages, seq, s, "assistant", req[r].reply)
       /\ seq' = append_seq(sessions, seq, s, "assistant")
       /\ req' = IF append_ok(sessions, s, "assistant")
                 THEN [req EXCEPT ![r] = Response(s, 200, req[r].reply)]
                 ELSE [req EXCEPT ![r] = Response(s, 500, None)]
    /\ UNCHANGED <<sessions, api, SATZUNG_PRESENT, collection, dummy_accepted, data_dir, indexer, served, summarizer>>

ChatStep(r) ==
    \/ GetSummary(r) \/ GetHistory(r) \/ CountCheck(r) \/ GetOlder(r)
    \/ Summarize(r) \/ SetSummary(r) \/ Trim(r) \/ Reload(r)
    \/ Embed(r) \/ CheckCache(r) \/ Probe(r) \/ Where(r) \/ Query(r)
    \/ CallModel(r) \/ AppendUser(r) \/ AppendAssistant(r)

(***************************************************************************)
(* Initial states.  The session store is a file that outlives the server   *)
(* process: a process starts on the store earlier runs left.  Stored(n) is *)
(* the store after n/2 sequential successful turns of session s1.          *)
(***************************************************************************)
NoCall == [op |-> "none", session_id |-> None, role |-> None, arg |-> 0, result |-> <<>>]
NoSummarizerCalls == [s \in SessionIds |-> [calls |-> 0, fails |-> 0, failed |-> FALSE]]

Stored(n) ==
    {[id |-> i, session_id |-> "s1",
      role |-> IF i % 2 = 1 THEN "user" ELSE "assistant",
      content |-> IF i % 2 = 1 THEN "hallo" ELSE "antwort"] : i \in 1..n}

StoredCounts == {20, 22}

\* The server and the direct calls run without the indexer.
InitNoIndexer ==
    /\ data_dir = <<>>
    /\ indexer = IdleIndexer

InitProcess ==
    /\ api = NoCall
    /\ req = [r \in Requests |-> IdleReq]
    /\ SATZUNG_PRESENT = Unset
    /\ served = 0
    /\ summarizer = NoSummarizerCalls

InitEmpty ==
    /\ sessions = <<>>
    /\ messages = {}
    /\ seq = 0
    /\ collection \in Stores
    /\ dummy_accepted \in BOOLEAN
    /\ InitNoIndexer
    /\ InitProcess

Init ==
    /\ \E n \in StoredCounts :
         /\ sessions = ("s1" :> "")
         /\ messages = Stored(n)
         /\ seq = n
    /\ collection \in Stores
    /\ dummy_accepted \in BOOLEAN
    /\ InitNoIndexer
    /\ InitProcess

\* Concurrent request workers on the stored sessions.
Next ==
    \E r \in Requests :
        \/ /\ served < MaxRequests
           /\ \E sid_in \in SessionIds \cup {None}, raw \in RawTexts : Receive(r, sid_in, raw)
        \/ ChatStep(r)

Spec == Init /\ [][Next]_vars

(***************************************************************************)
(* Direct calls of the session_store functions, with any arguments: a      *)
(* session that has no row, a role the CHECK constraint rejects, any limit *)
(* from -1 to MaxLimit.  api records the call and what it returned.        *)
(***************************************************************************)
StoreRoles == Roles \cup {"system"}
Limits == -1..MaxLimit

Call(op, session_id, role, arg, result) ==
    [op |-> op, session_id |-> session_id, role |-> role, arg |-> arg, result |-> result]

CallTouchSession(s) ==
    /\ sessions' = touch_session(sessions, s)
    /\ api' = Call("touch_session", s, None, 0, <<>>)
    /\ UNCHANGED <<messages, seq, req, SATZUNG_PRESENT, collection, dummy_accepted, data_dir, indexer, served, summarizer>>

CallGetSummary(s) ==
    /\ api' = Call("get_summary", s, None, 0, <<get_summary(sessions, s)>>)
    /\ UNCHANGED <<sessions, messages, seq, req, SATZUNG_PRESENT, collection, dummy_accepted, data_dir, indexer, served, summarizer>>

CallSetSummary(s, summary) ==
    /\ sessions' = set_summary(sessions, s, summary)
    /\ api' = Call("set_summary", s, None, 0, <<summary>>)
    /\ UNCHANGED <<messages, seq, req, SATZUNG_PRESENT, collection, dummy_accepted, data_dir, indexer, served, summarizer>>

CallAppendMessage(s, role, content) ==
    /\ seq < MaxStoreSeq
    /\ messages' = append_message(sessions, messages, seq, s, role, content)
    /\ seq' = append_seq(sessions, seq, s, role)
    /\ api' = Call("append_message", s, role, 0,
                   IF append_ok(sessions, s, role) THEN <<>> ELSE <<"IntegrityError">>)
    /\ UNCHANGED <<sessions, req, SATZUNG_PRESENT, collection, dummy_accepted, data_dir, indexer, served, summarizer>>

CallGetLastMessages(s, limit) ==
    /\ api' = Call("get_last_messages", s, None, limit, get_last_messages(messages, s, limit))
    /\ UNCHANGED <<sessions, messages, seq, req, SATZUNG_PRESENT, collection, dummy_accepted, data_dir, indexer, served, summarizer>>

CallCountMessages(s) ==
    /\ api' = Call("count_messages", s, None, 0, <<count_messages(messages, s)>>)
    /\ UNCHANGED <<sessions, messages, seq, req, SATZUNG_PRESENT, collection, dummy_accepted, data_dir, indexer, served, summarizer>>

CallDeleteOldestMessages(s, keep_last) ==
    /\ messages' = delete_oldest_messages(messages, s, keep_last)
    /\ api' = Call("delete_oldest_messages", s, None, keep_last,
                   <<Cardinality(messages) - Cardinality(messages')>>)  \* cursor.rowcount
    /\ UNCHANGED <<sessions, seq, req, SATZUNG_PRESENT, collection, dummy_accepted, data_dir, indexer, served, summarizer>>

NextStore ==
    \E s \in SessionIds :
        \/ CallTouchSession(s)
        \/ CallGetSummary(s)
        \/ CallSetSummary(s, "sumA")
        \/ \E role \in StoreRoles : CallAppendMessage(s, role, "m")
        \/ \E limit \in Limits : CallGetLastMessages(s, limit)
        \/ CallCountMessages(s)
        \/ \E keep_last \in 0..MaxLimit : CallDeleteOldestMessages(s, keep_last)

InitStore ==
    /\ sessions = <<>>
    /\ messages = {}
    /\ seq = 0
    /\ collection = {}
    /\ dummy_accepted = FALSE
    /\ InitNoIndexer
    /\ InitProcess

SpecStore == InitStore /\ [][NextStore]_vars

\* Direct calls of chunk_text on every text of at most MaxTextLen characters
\* over a letter, the blank and the newline.
Alphabet == {"a", " ", "\n"}
Texts == UNION {[1..n -> Alphabet] : n \in 0..MaxTextLen}

CallChunkText ==
    /\ api.op = "input"
    /\ api' = Call("chunk_text", None, None, api.arg,
                   chunk_text(api.arg[1], api.arg[2], api.arg[3]))
    /\ UNCHANGED <<sessions, messages, seq, req, SATZUNG_PRESENT, collection, dummy_accepted, data_dir, indexer, served, summarizer>>

NextChunk == CallChunkText

InitChunk ==
    /\ sessions = <<>>
    /\ messages = {}
    /\ seq = 0
    /\ collection = {}
    /\ dummy_accepted = FALSE
    /\ InitNoIndexer
    /\ req = [r \in Requests |-> IdleReq]
    /\ SATZUNG_PRESENT = Unset
    /\ served = 0
    /\ summarizer = NoSummarizerCalls
    /\ \E text \in Texts, max_chars \in 1..MaxChunkChars, overlap \in 0..MaxOverlap :
         api = Call("input", None, None, <<text, max_chars, overlap>>, <<>>)

SpecChunk == InitChunk /\ [][NextChunk]_vars

\* Runs of the indexer on a fresh collection, with edits of the directory
\* between the runs.
NextIndex ==
    \/ StartRun \/ NextFile \/ Extract \/ EmbedChunk \/ Add \/ FinishRun
    \/ \E f \in {"Satzung.pdf", "notes.txt"} : EditFile(f)

InitIndex ==
    /\ sessions = <<>>
    /\ messages = {}
    /\ seq = 0
    /\ collection = {}
    /\ dummy_accepted = FALSE
    /\ InitProcess
    /\ data_dir \in Dirs
    /\ indexer = IdleIndexer

SpecIndex == InitIndex /\ [][NextIndex]_vars

\* One request at a time on one session, from the empty store.  Every turn
\* sends the same text (or a blank one), so the rows of the store differ by
\* id and role only.
SeqTexts == {" ", "Satzung?"}
NextSeq ==
    \/ /\ served < MaxRequestsSeq
       /\ \E raw \in SeqTexts : Receive("r1", "s1", raw)
    \/ ChatStep("r1")

SpecSeq == InitEmpty /\ [][NextSeq]_vars

\* One request at a time on the stored session, with and without the keyword:
\* a sequence of sequential retrieve_context calls in one process.
NextCalls ==
    \/ /\ served < MaxCalls
       /\ \E raw \in RawTexts : Receive("r1", "s1", raw)
    \/ ChatStep("r1")

SpecCalls == Init /\ [][NextCalls]_vars

\* The same sequence of requests on a session that earlier processes left
\* with a backlog: 11 turns stored 22 messages, then the summarizer was down
\* for 4 or 5 more turns, each of which stored its two messages.
BacklogCounts == {SUMMARY_TRIGGER_MESSAGES + KEEP_LAST_MESSAGES - 2,
                  SUMMARY_TRIGGER_MESSAGES + KEEP_LAST_MESSAGES}

InitBacklog ==
    /\ \E n \in BacklogCounts :
         /\ sessions = ("s1" :> "")
         /\ messages = Stored(n)
         /\ seq = n
    /\ collection \in Stores
    /\ dummy_accepted \in BOOLEAN
    /\ InitNoIndexer
    /\ InitProcess

SpecBacklog == InitBacklog /\ [][NextCalls]_vars

(***************************************************************************)
(* Properties.                                                             *)
(***************************************************************************)
Min(a, b) == IF a <= b THEN a ELSE b
Ids(rows) == {m.id : m \in rows}

\* Positions of chat() after the compaction block and before the appends.
AfterCompaction == {"embed", "check_cache", "probe", "where", "query", "model"}

\* C1: compaction on success. A turn whose summarizer call returned a
\* non-empty summary has, from the trim until its model call, replaced the
\* session's summary by that summary and left exactly the KEEP_LAST_MESSAGES
\* most recently inserted rows (the ids seq-11..seq), its own two messages
\* not yet appended.
C1_CompactionOnSuccess ==
    \A r \in Requests :
        LET q == req[r] IN
        (q.pc \in AfterCompaction \cup {"reload"} /\ q.new_summary # "") =>
            /\ q.session_id \in DOMAIN sessions
            /\ sessions[q.session_id] = q.new_summary
            /\ Cardinality(Rows(messages, q.session_id)) = KEEP_LAST_MESSAGES
            /\ Ids(Rows(messages, q.session_id)) = (seq - KEEP_LAST_MESSAGES + 1)..seq
            /\ q.pc # "reload" => q.summary = q.new_summary

C1_Witness ==
    \E r \in Requests :
        /\ req[r].pc = "model"
        /\ req[r].new_summary = "sumB"
        /\ Len(req[r].old_part) = 10
        /\ Ids(messages) = 11..22

\* C2: compaction on failure. A turn whose summarizer call failed (error or
\* empty result) finds, until its model call, the summary it loaded and the
\* messages it read (old_part followed by history) still stored and the count
\* above the trigger; the count stays above the trigger for as long as the
\* last call of the session is a failed one; and no turn passes the
\* compaction block without calling the summarizer unless the count is at
\* most the trigger - so the next turn calls it again.
C2_FailureLeavesState ==
    /\ \A r \in Requests :
        LET q == req[r] IN
        (q.pc \in AfterCompaction /\ q.invoked = 1 /\ q.new_summary = "") =>
            /\ get_summary(sessions, q.session_id) = q.summary
            /\ get_last_messages(messages, q.session_id,
                   SUMMARY_TRIGGER_MESSAGES + KEEP_LAST_MESSAGES) = q.old_part \o q.history
            /\ Cardinality(Rows(messages, q.session_id)) = Len(q.old_part) + Len(q.history)
            /\ Cardinality(Rows(messages, q.session_id)) > SUMMARY_TRIGGER_MESSAGES
    /\ \A s \in SessionIds :
        summarizer[s].failed => Cardinality(Rows(messages, s)) > SUMMARY_TRIGGER_MESSAGES
    /\ \A r \in Requests :
        (req[r].pc \in AfterCompaction /\ req[r].invoked = 0) =>
            Cardinality(Rows(messages, req[r].session_id)) <= SUMMARY_TRIGGER_MESSAGES

\* A turn is at the summarizer again after the previous call failed.
C2_Witness ==
    \E r \in Requests :
        /\ req[r].pc = "summarize"
        /\ summarizer[req[r].session_id].failed
        /\ summarizer[req[r].session_id].fails = 1
        /\ Cardinality(Rows(messages, req[r].session_id)) = SUMMARY_TRIGGER_MESSAGES + 4

\* C3 as stated: from the empty session, no summarizer call while at most 20
\* messages were appended; once 22 are stored (chat appends two per turn, so
\* the 21st and 22nd arrive together) the next turn makes exactly one call,
\* and after it the count is 12.
C3_OneCallThenTwelve ==
    LET calls == summarizer["s1"].calls
        count == Cardinality(Rows(messages, "s1"))
        crossed == seq = SUMMARY_TRIGGER_MESSAGES + 2
    IN  /\ seq <= SUMMARY_TRIGGER_MESSAGES => calls = 0
        /\ \A r \in Requests : req[r].pc = "summarize" => count > SUMMARY_TRIGGER_MESSAGES
        /\ (crossed /\ \E r \in Requests : req[r].pc \in AfterCompaction) => calls >= 1
        /\ crossed => calls <= 1
        /\ (crossed /\ \E r \in Requests : req[r].pc \in AfterCompaction)
               => count = KEEP_LAST_MESSAGES

\* C3 amended: as above, but the call is the only one, and the count 12
\* after it, when it returns a non-empty summary; every failed call leaves
\* the 22 messages stored and is followed by one more call on the next turn.
C3_OneSuccessfulCallThenTwelve ==
    LET calls == summarizer["s1"].calls
        fails == summarizer["s1"].fails
        count == Cardinality(Rows(messages, "s1"))
        crossed == seq = SUMMARY_TRIGGER_MESSAGES + 2
    IN  /\ seq <= SUMMARY_TRIGGER_MESSAGES => calls = 0
        /\ \A r \in Requests : req[r].pc = "summarize" => count > SUMMARY_TRIGGER_MESSAGES
        /\ (crossed /\ \E r \in Requests : req[r].pc \in AfterCompaction) => calls >= 1
        /\ crossed => calls <= fails + 1
        /\ (crossed /\ calls > fails /\ \E r \in Requests : req[r].pc \in AfterCompaction)
               => count = KEEP_LAST_MESSAGES
        /\ (crossed /\ calls = fails) => count = SUMMARY_TRIGGER_MESSAGES + 2

C3_Witness ==
    /\ seq = SUMMARY_TRIGGER_MESSAGES + 2
    /\ summarizer["s1"].calls = 1
    /\ summarizer["s1"].fails = 0
    /\ Cardinality(Rows(messages, "s1")) = KEEP_LAST_MESSAGES
    /\ req["r1"].pc = "model"

\* C4 as stated: a session never holds more than SUMMARY_TRIGGER + 2 messages.
C4_AtMostTriggerPlusTwo ==
    \A s \in SessionIds :
        Cardinality(Rows(messages, s)) <= SUMMARY_TRIGGER_MESSAGES + 2

\* C4 amended: under sequential turns a session never holds more than
\* SUMMARY_TRIGGER + 2 messages plus two for every summarizer call of the
\* session that failed.
C4_BoundedByFailures ==
    \A s \in SessionIds :
        Cardinality(Rows(messages, s))
            <= SUMMARY_TRIGGER_MESSAGES + 2 + 2 * summarizer[s].fails

C4_Witness ==
    /\ summarizer["s1"].fails = 1
    /\ Cardinality(Rows(messages, "s1")) = SUMMARY_TRIGGER_MESSAGES + 4

\* C5: delete_oldest_messages(session_id, keep_last=K) with K >= 0 leaves
\* min(K, total) rows of the session, each an unchanged row of before, and
\* every row it deletes is older (has a smaller id) than every row it keeps.
C5_DeleteOldestLeavesMostRecent ==
    [][api'.op = "delete_oldest_messages" =>
         LET before == Rows(messages, api'.session_id)
             after == Rows(messages', api'.session_id)
         IN  /\ Cardinality(after) = Min(api'.arg, Cardinality(before))
             /\ after \subseteq before
             /\ \A k \in after, d \in before \ after : d.id < k.id]_vars

\* A call with keep_last = 2 that deleted one of three rows.
C5_Witness ==
    /\ api.op = "delete_oldest_messages"
    /\ api.arg = 2
    /\ api.result = <<1>>
    /\ Cardinality(Rows(messages, api.session_id)) = 2

\* C6: get_last_messages(session_id, limit) with limit >= 0 returns
\* min(limit, count) messages; the i-th of them is the stored row of the
\* session that has exactly (returned - i) rows of the session newer than it.
C6_LastMessagesChronological ==
    (api.op = "get_last_messages" /\ api.arg >= 0) =>
        LET rows == Rows(messages, api.session_id)
            n == Min(api.arg, Cardinality(rows))
        IN  /\ Len(api.result) = n
            /\ \A i \in 1..n :
                 \E m \in rows :
                    /\ Cardinality({x \in rows : x.id > m.id}) = n - i
                    /\ api.result[i] = [role |-> m.role, content |-> m.content]

\* Two of three rows are returned, after a deletion, and they differ.
C6_Witness ==
    /\ api.op = "get_last_messages"
    /\ api.arg = 2
    /\ Cardinality(Rows(messages, api.session_id)) = 3
    /\ Cardinality(messages) < seq
    /\ Len(api.result) = 2
    /\ api.result[1].role = "assistant"
    /\ api.result[2].role = "user"

\* C7: session isolation. A step of a request leaves the row, the summary
\* and the messages of every session other than the request's own unchanged.
C7_SessionIsolation ==
    [][\A r \in Requests, s \in SessionIds :
         (req'[r] # req[r] /\ req'[r].session_id # s) =>
            /\ Rows(messages', s) = Rows(messages, s)
            /\ (s \in DOMAIN sessions') = (s \in DOMAIN sessions)
            /\ get_summary(sessions', s) = get_summary(sessions, s)]_vars

\* A compaction of s1 has trimmed its rows while s2 holds a turn of its own.
C7_Witness ==
    \E r \in Requests :
        /\ req[r].pc = "reload"
        /\ req[r].session_id = "s1"
        /\ Cardinality(Rows(messages, "s1")) = KEEP_LAST_MESSAGES
        /\ Cardinality(Rows(messages, "s2")) = 2

\* C8: a request calls the summarizer at most once, and only with a
\* non-empty older slice; two concurrent requests of one session calling it
\* for the same slice is the reachable state C8_DoubleTrigger.
C8_OneCallPerRequest ==
    \A r \in Requests :
        /\ req[r].invoked <= 1
        /\ req[r].invoked = 1 => req[r].old_part # <<>>

C8_DoubleTrigger ==
    \E r1, r2 \in Requests :
        /\ r1 # r2
        /\ req[r1].session_id = req[r2].session_id
        /\ req[r1].invoked = 1 /\ req[r2].invoked = 1
        /\ req[r1].pc = "set_summary" /\ req[r2].pc = "set_summary"
        /\ req[r1].old_part = req[r2].old_part
        /\ summarizer[req[r1].session_id].calls = 2

\* C9: a model call that fails or answers without content ends the request
\* with status 500 and writes nothing: the only step from the model call to
\* the end of the request leaves both tables as they are.
C9_ModelFailureAppendsNothing ==
    [][\A r \in Requests :
         (req[r].pc = "model" /\ req'[r].pc # "append_user" /\ req'[r] # req[r]) =>
            /\ req'[r].pc = "done"
            /\ req'[r].status = 500
            /\ messages' = messages
            /\ seq' = seq
            /\ sessions' = sessions]_vars

\* The first request has failed and the store holds what it held before.
C9_Witness ==
    \E r \in Requests :
        /\ req[r].pc = "done"
        /\ req[r].status = 500
        /\ served = 1
        /\ messages = Stored(seq)

\* C10: empty-filter guard. A similarity query for a text containing
\* "satzung", run on a collection without a satzung entry, was run without
\* filter: its context is that of the unfiltered query.
HasSatzung(coll) == \E e \in coll : e.doc_type = "satzung"

C10_NoFilterWithoutSatzung ==
    \A r \in Requests :
        LET q == req[r] IN
        (q.pc = "model" /\ q.query_emb # Unset
            /\ contains_satzung(lower(q.user_text)) /\ ~HasSatzung(collection)) =>
            /\ q.where = None
            /\ Len(q.context) = Min(RETRIEVE_K, Cardinality(collection))
            /\ q.context = format_context(query(collection, q.query_emb[1], RETRIEVE_K, None))

C10_Witness ==
    \E r \in Requests :
        /\ req[r].pc = "model"
        /\ req[r].user_text = "Satzung?"
        /\ collection = StoreNoSatzung
        /\ SATZUNG_PRESENT = Some(FALSE)
        /\ Len(req[r].context) = RETRIEVE_K

\* C11: filter for an existing category. A similarity query for a text
\* containing "satzung", run on a collection that holds a satzung entry,
\* returns only entries of doc_type "satzung".
C11_FilterForExistingCategory ==
    \A r \in Requests :
        LET q == req[r] IN
        (q.pc = "model" /\ q.query_emb # Unset
            /\ contains_satzung(lower(q.user_text)) /\ HasSatzung(collection)) =>
            \A i \in 1..Len(q.context) : q.context[i].header[2] = "satzung"

\* The keyword query ran on a collection with satzung entries and the probe
\* had found them: the filter was applied.
C11_Witness ==
    \E r \in Requests :
        /\ req[r].pc = "model"
        /\ req[r].user_text = "Satzung?"
        /\ collection = StoreWithSatzung
        /\ SATZUNG_PRESENT = Some(TRUE)
        /\ req[r].where = "satzung"
        /\ Len(req[r].context) = 2

\* What C12 says of the memo and of the calls without the keyword, under
\* sequential calls: a probe runs only while the memo is unset, and sets it;
\* once set the memo never changes; a call whose query lacks the keyword
\* never reads the memo, never probes, and queries without a filter.
KeywordCall(q) == contains_satzung(lower(q.user_text))

C12_MemoWrittenOnce ==
    /\ [][\A r \in Requests :
            (req[r].pc = "probe" /\ req'[r] # req[r]) =>
                (SATZUNG_PRESENT = Unset /\ SATZUNG_PRESENT' # Unset)]_vars
    /\ [][SATZUNG_PRESENT # Unset => SATZUNG_PRESENT' = SATZUNG_PRESENT]_vars
    /\ [][\A r \in Requests :
            (req'[r] # req[r] /\ ~KeywordCall(req'[r])) =>
                SATZUNG_PRESENT' = SATZUNG_PRESENT]_vars
    /\ [](\A r \in Requests :
            ~KeywordCall(req[r]) =>
                /\ req[r].pc \notin {"check_cache", "probe", "where"}
                /\ ~req[r].probed
                /\ req[r].where = None
                /\ (req[r].pc = "model" /\ req[r].query_emb # Unset) =>
                      req[r].context = format_context(
                          query(collection, req[r].query_emb[1], RETRIEVE_K, None)))

\* C12 as stated: the probe runs at most once, on the first call whose query
\* contains the keyword - so every keyword call has left the memo set when
\* its retrieval returns.
C12_ProbeOnFirstKeywordCall ==
    /\ C12_MemoWrittenOnce
    /\ [](\A r \in Requests :
            (KeywordCall(req[r]) /\ req[r].pc = "model") => SATZUNG_PRESENT # Unset)

\* C12 amended: the probe runs on the first keyword call whose query
\* embedding succeeds; a keyword call whose embedding fails returns before
\* the keyword test, runs no probe and leaves the memo as it was.
C12_ProbeOnFirstEmbeddedKeywordCall ==
    /\ C12_MemoWrittenOnce
    /\ [](\A r \in Requests :
            (KeywordCall(req[r]) /\ req[r].pc \in {"where", "query", "model"}
                /\ req[r].query_emb # Unset) => SATZUNG_PRESENT # Unset)
    /\ [](\A r \in Requests :
            (KeywordCall(req[r]) /\ req[r].pc = "model" /\ req[r].query_emb = Unset) =>
                ~req[r].probed /\ req[r].where = None /\ req[r].context = <<>>)

\* The third call is a keyword query that applies the filter from the memo
\* without having probed: an earlier call set it.
C12_Witness ==
    /\ served = 3
    /\ req["r1"].pc = "query"
    /\ KeywordCall(req["r1"])
    /\ ~req["r1"].probed
    /\ req["r1"].where = "satzung"
    /\ SATZUNG_PRESENT = Some(TRUE)

\* C13: concurrent first probes. A probe leaves the collection as it is, and
\* with the collection fixed every probe writes the same value: a probe that
\* runs when the memo is already set (another request's probe has finished
\* in between) writes the value that is there.
C13_ProbesConverge ==
    [][\A r \in Requests :
         (req[r].pc = "probe" /\ req'[r] # req[r]) =>
            /\ collection' = collection
            /\ SATZUNG_PRESENT # Unset => SATZUNG_PRESENT' = SATZUNG_PRESENT]_vars

\* Two requests have both run the probe on the same collection (with satzung
\* entries among the 5 nearest) and read different answers from the memo.
C13_Witness ==
    /\ collection = StoreWithSatzung
    /\ req["r1"].probed /\ req["r2"].probed
    /\ req["r1"].pc = "query" /\ req["r2"].pc = "query"
    /\ req["r1"].where = "satzung"
    /\ req["r2"].where = None

\* C14: retrieval embedding failure. The step of retrieve_context at the
\* query embedding either yields the embedding or, when the call fails, hands
\* the empty context to chat() without ending the request; a request whose
\* embedding failed has run neither the probe nor the similarity query, has
\* memoized nothing, and calls the model with the fallback prompt.
C14_EmbeddingFailureEmptyContext ==
    /\ [][\A r \in Requests :
            (req[r].pc = "embed" /\ req'[r] # req[r]) =>
                /\ req'[r].pc \in {"model", "check_cache", "query"}
                /\ req'[r].status = 0
                /\ req'[r].pc = "model" =>
                      /\ req'[r].query_emb = Unset
                      /\ req'[r].context = <<>>
                      /\ SATZUNG_PRESENT' = SATZUNG_PRESENT]_vars
    /\ [](\A r \in Requests :
            (req[r].pc \in {"model", "append_user", "append_assistant"}
                /\ req[r].query_emb = Unset) =>
                /\ req[r].context = <<>>
                /\ ~req[r].probed /\ ~req[r].queried
                /\ req[r].where = None
                /\ req[r].pc # "model" => req[r].prompt = "fallback")

\* A keyword request on a non-empty collection whose embedding failed has
\* been answered by the model and is storing its turn.
C14_Witness ==
    /\ req["r1"].pc = "append_assistant"
    /\ req["r1"].user_text = "Satzung?"
    /\ req["r1"].query_emb = Unset
    /\ req["r1"].prompt = "fallback"
    /\ collection = StoreWithSatzung
    /\ SATZUNG_PRESENT = Unset

\* C20 as stated: whenever chunk_text(text, max_chars, overlap) with
\* overlap > 0 returns more than one chunk, every chunk from the second on
\* is the last min(overlap, length) characters of the preceding pre-overlap
\* chunk, a newline, and the chunk's own accumulated paragraphs.
C20_OverlapPrefix ==
    (api.op = "chunk_text" /\ api.arg[3] > 0 /\ Len(api.result) > 1) =>
        LET pre == accumulated_chunks(api.arg[1], api.arg[2])
            overlap == api.arg[3]
        IN  /\ Len(api.result) = Len(pre)
            /\ \A i \in 2..Len(pre) :
                 LET n == Min(overlap, Len(pre[i - 1]))
                 IN  api.result[i] =
                        SubSeq(pre[i - 1], Len(pre[i - 1]) - n + 1, Len(pre[i - 1]))
                            \o <<"\n">> \o pre[i]

\* C20 amended: ... every chunk from the second on is that prefix with its
\* leading whitespace removed (the joined string is stripped), then - unless
\* nothing of the prefix is left - a newline, then the chunk's own
\* accumulated paragraphs.
C20_OverlapPrefixStripped ==
    (api.op = "chunk_text" /\ api.arg[3] > 0 /\ Len(api.result) > 1) =>
        LET pre == accumulated_chunks(api.arg[1], api.arg[2])
            overlap == api.arg[3]
        IN  /\ Len(api.result) = Len(pre)
            /\ api.result[1] = pre[1]
            /\ \A i \in 2..Len(pre) :
                 LET n == Min(overlap, Len(pre[i - 1]))
                     tail == SubSeq(pre[i - 1], Len(pre[i - 1]) - n + 1, Len(pre[i - 1]))
                     K == {k \in 1..n : tail[k] \notin Whitespace}
                     first == CHOOSE k \in K : \A j \in K : k <= j
                 IN  /\ K # {}
                     /\ api.result[i] = SubSeq(tail, first, n) \o <<"\n">> \o pre[i]

\* Two chunks, the second begins with the last two characters of the first.
C20_Witness ==
    /\ api.op = "chunk_text"
    /\ api.arg = << <<"a", " ", "a", "\n", "a">>, 3, 2 >>
    /\ api.result = << <<"a", " ", "a">>, <<"a", "\n", "a">> >>

\* Runs k and k+1 of the indexer both reached the report of lines 252-253,
\* and nobody edited the directory from the start of the one to the start
\* of the other.
TwoRunsUnchangedDir(k) ==
    /\ k + 1 <= Len(indexer.log)
    /\ indexer.log[k].outcome = "finished"
    /\ indexer.log[k + 1].outcome = "finished"
    /\ indexer.log[k].edits = indexer.log[k + 1].edits

\* C15 as stated: two runs over an unchanged directory - the entry count
\* after the second equals the count after the first.
C15_SecondRunAddsNothing ==
    \A k \in 1..MaxRuns :
        TwoRunsUnchangedDir(k) => indexer.log[k + 1].count = indexer.log[k].count

\* C15 amended: ... provided every embedding call and every batch write of
\* the first run succeeded; then every batch of the second run is refused
\* and it reports 0.  (A file of which the first run wrote nothing, or a
\* chunk it skipped, can be added by the second run.)
C15_SecondRunAfterCleanRunAddsNothing ==
    \A k \in 1..MaxRuns :
        (TwoRunsUnchangedDir(k) /\ indexer.log[k].skipped = {}
            /\ indexer.log[k].store_errors = {} /\ indexer.log[k].rejected = {}) =>
            /\ indexer.log[k + 1].count = indexer.log[k].count
            /\ indexer.log[k + 1].total = 0
            /\ indexer.log[k + 1].written = {}

\* The second run over the three files found every id stored.
C15_Witness ==
    /\ TwoRunsUnchangedDir(1)
    /\ indexer.log[1].total = 3
    /\ indexer.log[2].count = 3
    /\ indexer.log[2].rejected = {"Satzung.pdf", "notes.txt"}

\* The identifiers of the chunks of file f as it is now.
CurrentIds(f) ==
    LET cs == file_chunks(f, data_dir[f])
    IN  {stable_id(f, cs[i].page, cs[i].idx, cs[i].text) : i \in 1..Len(cs)}

\* The last run reached its report, started after the last edit, and met no
\* embedding failure and no failure of the store.
CleanRunAfterEdit ==
    /\ indexer.pc = "idle"
    /\ indexer.log # <<>>
    /\ ThisRun.outcome = "finished"
    /\ ThisRun.edits = indexer.edits
    /\ indexer.edits > 0
    /\ ThisRun.skipped = {}
    /\ ThisRun.store_errors = {}

\* C16: edits create new entries. After a re-indexing run without embedding
\* failure (and without failure of the store), every file of which an entry
\* of an older version is stored (it was indexed, then edited) has an entry
\* under the identifier of each of its present chunks.
C16_EditedChunksIndexed ==
    CleanRunAfterEdit =>
        \A f \in {g \in DOMAIN data_dir : is_supported(g)} :
            (\E e \in collection : e.source = f /\ e.id \notin CurrentIds(f)) =>
                CurrentIds(f) \subseteq EntryIds(collection)

\* The one-chunk file was edited and re-indexed: the old and the new entry
\* are both stored.
C16_Witness ==
    /\ CleanRunAfterEdit
    /\ data_dir["notes.txt"] = TextC
    /\ \E e \in collection : e.source = "notes.txt" /\ e.document = TextB
    /\ \E e \in collection : e.source = "notes.txt" /\ e.document = TextC

\* What the batch holds once the first n chunks of the file were tried: the
\* entries of the chunks whose embedding did not fail, in their order, each
\* with its own page and chunk index.
ExpectedBatch(n) ==
    SelectSeq([i \in 1..n |-> IndexEntry(indexer.filename, indexer.doc_type, indexer.chunks[i])],
              LAMBDA e : <<indexer.filename, e.page, e.chunk>> \notin ThisRun.skipped)

\* C17: per-chunk embedding failure. The chunk whose embedding fails, and
\* only it, is left out of the batch of its file; the other chunks are in
\* the batch with their own page and chunk index in identifier and metadata;
\* the write adds them all or fails; and the run goes on with the files that
\* are left.
C17_EmbeddingFailureSkipsChunk ==
    /\ [](indexer.pc = "embed" => indexer.batch = ExpectedBatch(indexer.j - 1))
    /\ [](indexer.pc = "add" =>
            /\ indexer.batch = ExpectedBatch(Len(indexer.chunks))
            /\ \A i \in 1..Len(indexer.batch) :
                 indexer.batch[i].id =
                    stable_id(indexer.filename, indexer.batch[i].page,
                              indexer.batch[i].chunk, indexer.batch[i].document))
    /\ [][(indexer.pc = "embed" /\ indexer' # indexer) =>
            /\ indexer'.pc \in {"embed", "add"}
            /\ indexer'.todo = indexer.todo
            /\ collection' = collection]_vars
    /\ [][(indexer.pc = "add" /\ indexer' # indexer) =>
            /\ indexer'.pc = "loop"
            /\ indexer'.todo = indexer.todo
            /\ \/ collection' = collection \cup BatchEntries(indexer.batch)
               \/ collection' = collection /\ indexer.filename \notin indexer'.log[Len(indexer.log)].written]_vars

\* The first chunk of the two-chunk file was skipped, the second is in the
\* batch under chunk index 1.
C17_Witness ==
    /\ indexer.pc = "add"
    /\ data_dir = DirLong
    /\ ThisRun.skipped = {<<"notes.txt", 0, 0>>}
    /\ Len(indexer.batch) = 1
    /\ indexer.batch[1].chunk = 1
    /\ indexer.batch[1].id[3] = 1
    /\ Len(indexer.batch[1].document) > OVERLAP

\* C18: extraction failure. Whatever the extraction of a file does - it
\* raises, or it yields no text - the run goes on: the step after it is the
\* embedding of the file's chunks or the next pass of the loop over the
\* files, with the files not yet read still to come and nothing added.
C18_ExtractionFailureSkipsFile ==
    [][(indexer.pc = "extract" /\ indexer' # indexer) =>
          /\ indexer'.pc \in {"embed", "loop"}
          /\ indexer'.todo = indexer.todo
          /\ indexer'.log[Len(indexer.log)].outcome = "running"
          /\ collection' = collection]_vars

\* The file without text was skipped and the run is reading a later file,
\* with one more to come.
C18_Witness ==
    /\ indexer.pc = "embed"
    /\ indexer.filename = "notes.txt"
    /\ indexer.todo = {"Satzung.pdf"}
    /\ collection = {}
    /\ ThisRun.outcome = "running"

\* C19: store-write failure. A batch write that fails adds nothing, leaves
\* the total as it was and the run at the next pass of the loop with the
\* remaining files; a write that succeeds adds the batch and its length to
\* the total; the run reports only when no file is left; and the total, at
\* every point of a run and in its report, is the number of entries the
\* collection gained since the run started.
C19_WriteFailureCountsNothing ==
    /\ [][(indexer.pc = "add" /\ indexer' # indexer) =>
            /\ indexer'.pc = "loop"
            /\ indexer'.todo = indexer.todo
            /\ indexer'.log[Len(indexer.log)].outcome = "running"
            /\ \/ /\ collection' = collection
                  /\ indexer'.total_added = indexer.total_added
               \/ /\ Cardinality(collection') = Cardinality(collection) + Len(indexer.batch)
                  /\ indexer'.total_added = indexer.total_added + Len(indexer.batch)
                  /\ indexer.batch # <<>>]_vars
    /\ [][(indexer.pc = "loop" /\ indexer'.pc = "idle") => indexer.todo = {}]_vars
    /\ [](indexer.pc # "idle" =>
            indexer.total_added = Cardinality(collection) - ThisRun.count_before)
    /\ [](\A k \in 1..Len(indexer.log) :
            indexer.log[k].outcome = "finished" =>
                /\ indexer.log[k].total = indexer.log[k].count - indexer.log[k].count_before
                /\ indexer.log[k].written = {} => indexer.log[k].total = 0)

\* The write of the pdf's batch failed on the store, the run went on, wrote
\* the text file and reported 1.
C19_Witness ==
    /\ indexer.pc = "idle"
    /\ indexer.log # <<>>
    /\ ThisRun.outcome = "finished"
    /\ ThisRun.store_errors = {"Satzung.pdf"}
    /\ ThisRun.skipped = {}
    /\ ThisRun.written = {"notes.txt"}
    /\ ThisRun.total = 1
    /\ ThisRun.count = 1

\* The paragraphs of a sequence of strings, one after another.
RECURSIVE SplitAll(_)
SplitAll(strs) ==
    IF strs = <<>> THEN <<>> ELSE str_split(Head(strs)) \o SplitAll(Tail(strs))

\* What is left of the chunks of a result when the overlap prefix is taken
\* off every chunk after the first: the prefix of chunk i is what is left
\* of the last `overlap` characters of the content of chunk i-1 after the
\* strip, and the newline that joins it to the content.
RECURSIVE ChunkContents(_, _, _)
ChunkContents(result, overlap, n) ==
    IF n = 0 THEN <<>>
    ELSE LET before == ChunkContents(result, overlap, n - 1) IN
         IF n = 1 \/ overlap = 0 THEN Append(before, result[n])
         ELSE LET cut == Len(str_strip(overlap_prefix(before[n - 1], overlap))) + 1
              IN  Append(before, SubSeq(result[n], cut + 1, Len(result[n])))

\* C21: chunking loses and reorders nothing. For every text, the contents
\* of the chunks (each chunk without its overlap prefix), split at their
\* newlines and put one after another, are exactly the non-empty trimmed
\* paragraphs of the text, each once and in order, so no paragraph lies in
\* two chunks; no chunk is empty; and a text without paragraphs gives no
\* chunk.
C21_ChunkingLosesNothing ==
    api.op = "chunk_text" =>
        LET text == api.arg[1]
            contents == ChunkContents(api.result, api.arg[3], Len(api.result))
        IN  /\ SplitAll(contents) = paragraphs(text)
            /\ \A i \in 1..Len(contents) : contents[i] # <<>>
            /\ paragraphs(text) = <<>> => api.result = <<>>
            /\ text = <<>> => api.result = <<>>

\* Three paragraphs in two chunks, the first chunk holding two of them and
\* the second beginning with what the strip left of the overlap.
C21_Witness ==
    /\ api.op = "chunk_text"
    /\ api.arg = << <<"a", "\n", "a", "\n", "a">>, 3, 2 >>
    /\ api.result = << <<"a", "\n", "a">>, <<"a", "\n", "a">> >>
    /\ ChunkContents(api.result, 2, 2) = << <<"a", "\n", "a">>, <<"a">> >>

\* C22: no message is dropped unsummarized. Under sequential turns, every
\* row that the trim of a compaction deletes is one of the rows whose text
\* was handed to the summarizer call of that compaction.
C22_NoMessageDroppedUnsummarized ==
    [][\A r \in Requests :
          (req[r].pc = "trim" /\ req'[r].pc = "reload") =>
              Ids(messages \ messages') \subseteq req[r].old_ids]_vars

\* A compaction on 34 stored messages has summarized the rows 3..22 and
\* deleted the rows 1..22.
C22_Witness ==
    /\ req["r1"].pc = "reload"
    /\ req["r1"].new_summary # ""
    /\ req["r1"].old_ids = 3..22
    /\ seq = SUMMARY_TRIGGER_MESSAGES + KEEP_LAST_MESSAGES + 2
    /\ Ids(messages) = 23..34

\* All rows of a session in the order of their ids.
History(s) == reverse(OrderByIdDescLimit(Rows(messages, s), -1))

\* C23: turn structure of the stored history. Under sequential requests
\* the rows of a session, in the order of their ids, alternate user,
\* assistant and begin with a user row - before and after a compaction;
\* their number is even in every state but the one between the two appends
\* of a turn, where the user row of the turn is the last.
C23_TurnStructure ==
    \A s \in SessionIds :
        LET rows == History(s)
            mid_turn == req["r1"].pc = "append_assistant" /\ req["r1"].session_id = s
        IN  /\ \A i \in 1..Len(rows) :
                  rows[i].role = IF i % 2 = 1 THEN "user" ELSE "assistant"
            /\ Len(rows) % 2 = (IF mid_turn THEN 1 ELSE 0)

\* A compaction trimmed the session to the rows 11..22 and the turn has
\* stored its two messages behind them.
C23_Witness ==
    /\ req["r1"].pc = "done"
    /\ req["r1"].status = 200
    /\ summarizer["s1"].calls > summarizer["s1"].fails
    /\ Ids(messages) = 11..24
    /\ History("s1")[1].role = "user"
    /\ History("s1")[1].id = 11

\* C24: referential integrity of messages. Every stored message belongs
\* to a session that has a row; an append_message for a session without a
\* row, or with a role other than user and assistant, raises and leaves
\* the sessions and the messages (and the id sequence) as they were; every
\* other append_message stores exactly one new row.
C24_ReferentialIntegrity ==
    /\ [](\A m \in messages : m.session_id \in DOMAIN sessions)
    /\ [][api'.op = "append_message" =>
            IF api'.session_id \in DOMAIN sessions /\ api'.role \in Roles
            THEN \/ /\ Cardinality(messages') = Cardinality(messages) + 1
                    /\ messages \subseteq messages'
                    /\ sessions' = sessions
                    /\ api'.result = <<>>
                 \/ UNCHANGED vars
            ELSE /\ messages' = messages
                 /\ sessions' = sessions
                 /\ seq' = seq
                 /\ api'.result = <<"IntegrityError">>]_vars

\* An append for a session without a row was refused while the other
\* session has a row and a message.
C24_Witness ==
    /\ api.op = "append_message"
    /\ api.role = "user"
    /\ api.session_id = "s2"
    /\ api.result = <<"IntegrityError">>
    /\ DOMAIN sessions = {"s1"}
    /\ messages # {}

\* The identifier of the chunk of file f on page `page` with index idx.
SkippedIds(f, page, idx) ==
    LET cs == file_chunks(f, data_dir[f])
    IN  {stable_id(f, cs[i].page, cs[i].idx, cs[i].text) :
            i \in {n \in 1..Len(cs) : cs[n].page = page /\ cs[n].idx = idx}}

\* Run k skipped a chunk, run k+1 over the same unchanged directory met no
\* embedding failure (and no failure of the store), and the directory is
\* still as it was.
RecoveryRun(k) ==
    /\ TwoRunsUnchangedDir(k)
    /\ indexer.edits = indexer.log[k].edits
    /\ indexer.log[k].skipped # {}
    /\ indexer.log[k + 1].skipped = {}
    /\ indexer.log[k + 1].store_errors = {}

\* C25: recovery of skipped chunks. A chunk that a run skipped because its
\* embedding call failed is stored after a later run over the same
\* unchanged directory in which every embedding call succeeds.
C25_SkippedChunksRecovered ==
    \A k \in 1..MaxRuns :
        RecoveryRun(k) =>
            \A c \in indexer.log[k].skipped :
                SkippedIds(c[1], c[2], c[3]) \subseteq EntryIds(collection)

\* The first run skipped the second chunk of the two-chunk file and wrote
\* the first; the second run embedded both and its batch was refused.
C25_Witness ==
    /\ RecoveryRun(1)
    /\ data_dir = DirLong
    /\ indexer.log[1].skipped = {<<"notes.txt", 0, 1>>}
    /\ indexer.log[1].written = {"notes.txt"}
    /\ indexer.log[2].rejected = {"notes.txt"}
    /\ Cardinality(collection) = 1

====
